---------------------------- MODULE Spec2Model ----------------------------
(***************************************************************************)
(* A model of the GitHub star crawler: the SearchPartition value and its   *)
(* splits (partitioning.py), the crawl orchestrator (crawler.py) and the   *)
(* GraphQL client's retry and pacing loop (github_client.py).               *)
(*                                                                         *)
(* Dates are proleptic Gregorian ordinals (date.toordinal()), so that      *)
(* timedelta arithmetic is integer arithmetic; None is 0, which is no      *)
(* date's ordinal.  Durations of the client are in tenths of a second.     *)
(***************************************************************************)
EXTENDS Integers, Sequences, FiniteSets, TLC

VARIABLES
    \* ---- partitioning.py, exercised on its own ----
    p_in,               \* the SearchPartition a method is called on
    p_op,               \* the method last applied to p_in ("none" before a call)
    p_res,              \* what that call returned
    \* ---- crawler.py: one GitHubStarCrawler and its crawl_once() ----
    settings,           \* Settings fields read by the crawler
    today,              \* crawl_once: today
    pc,                 \* position of crawl_once
    stats,              \* crawl_once: stats (CrawlStats)
    queue,              \* crawl_once: queue, the heap's entries
    queue_counter,      \* self._queue_counter: the next value of itertools.count()
    seen_repo_nodes,    \* crawl_once: seen_repo_nodes
    popped,             \* the heap entry returned by the last heappop
    remaining,          \* crawl_once: remaining (row_limit of the ingestion)
    cursor,             \* _ingest_partition: cursor
    persisted,          \* _ingest_partition: persisted
    duplicates,         \* _ingest_partition: duplicates
    run,                \* the crawl_runs row of this run (PostgresStore)
    sink,               \* per entity id, how often it was handed to upsert_page
    committed,          \* entity ids whose batch upsert_page committed
    pending,            \* entity ids written in the connection's open transaction
    returned,           \* the ids the ingested pages held so far, and how many nodes held one
    last_ingest,        \* crawl_once: persisted, duplicates of the last _ingest_partition
    exc,                \* the fault being propagated, "" when none
    last_step,          \* what the last step of crawl_once did
    probe_count,        \* the count the last probe reported (_partition_count)
    search_request,     \* the last _search_page call: first, after, and the calls
                        \* made for the popped partition so far (n: 0, 1, or 2 for more)
    settled,            \* the partitions of this run that were skipped, or handed to
                        \* _ingest_partition
    page,               \* the search block _ingest_partition last worked on for the
                        \* popped partition, and the upsert_page calls made for it
    \* ---- github_client.py: one GitHubGraphQLClient ----
    csettings,          \* Settings fields read by the client
    cpc,                \* position of execute
    attempt,            \* execute: attempt
    clock,              \* time.monotonic(), counted from the start of the last request
                        \* (before the first: from the clock's own origin)
    last_request_at,    \* self._last_request_at, on the same time axis
    last_error,         \* execute: last_error
    outcome,            \* how the last execute call ended
    requested,          \* the requests this client has issued: 0, 1, or 2 for more
    request_gap,        \* the time from the start of the request before the last
                        \* to the start of the last (0 before the second request)
    backoffs,           \* the last two <<attempt, delay>> of _compute_backoff in this call
    last_sleep,         \* the duration the last _sleep handed to time.sleep (0: none)
    resp,               \* the response of the last request (NoResponse: none yet)
    call_requests,      \* the requests the current (or last) execute call has issued
    wait_from,          \* where the wait of the last attempt was taken from
    raised,             \* what the RuntimeError of the last call carries (NoError: none)
    reset_due,          \* when the last response was one that throttles: the time it
                        \* was read at and the time of the reset it named, on the
                        \* clock's axis (NoReset otherwise)
    started_after,      \* how the start of the last request lies to the reset_due
                        \* known then: "none", "reset", "cap" or "early"
    sleep_call          \* the call of _sleep the last attempt made: the seconds handed
                        \* to it, whether it called time.sleep, and for how long

pvars == <<p_in, p_op, p_res>>
kvars == <<settings, today, pc, stats, queue, queue_counter, seen_repo_nodes,
           popped, remaining, cursor, persisted, duplicates,
           run, sink, committed, pending, returned, last_ingest, exc, last_step,
           probe_count,
           search_request, page, settled>>
cvars == <<csettings, cpc, attempt, clock, last_request_at,
           last_error, outcome, requested, request_gap, backoffs, last_sleep,
           resp, call_requests, wait_from, raised, reset_due, started_after,
           sleep_call>>
vars == <<pvars, kvars, cvars>>

(***************************************************************************)
(* Bounds of the model.                                                    *)
(***************************************************************************)
MaxStar == 3            \* star bounds of the partitions split on their own
MaxTop == 1             \* the small maximum star counts the remote reports
MaxDays == 3            \* date windows span at most this many days after EARLIEST
MaxIds == 2             \* entity ids are 1..MaxIds
MaxWindow == 2          \* today is at most this many days after EARLIEST
MaxPops == 4            \* partitions popped in one run
MaxDups == 2            \* duplicates met in one run before paging stops
MaxLatency == 1         \* tenths of a second a request, or a sleep beyond its due, may take
MaxRetries == 3         \* Settings.max_retries is at most this

(***************************************************************************)
(* Program constants.                                                      *)
(***************************************************************************)
None == 0
MAX_PARTITION_RESULTS == 1000       \* Settings.max_partition_results (default)
EARLIEST_GITHUB_DATE == 733042      \* date(2008, 1, 1).toordinal()
MAX_SLEEP_SECONDS == 36000          \* 3600 s, in tenths of a second
JitterMin == 2                      \* random.uniform(0.2, 0.8), in tenths
JitterMax == 8
WaitJitterMax == 10                 \* random.uniform(0.2, 1.0), in tenths

Min(a, b) == IF a <= b THEN a ELSE b
Max(a, b) == IF a >= b THEN a ELSE b

(***************************************************************************)
(* partitioning.py: SearchPartition                                        *)
(***************************************************************************)
SearchPartition(smin, smax, cfrom, cto) ==
    [stars_min |-> smin, stars_max |-> smax, created_from |-> cfrom, created_to |-> cto]

\* Python truthiness of a date | None field: a date is always truthy.
Truthy(d) == d # None

with_date_window(self, tday, earliest) ==
    IF Truthy(self.created_from) /\ Truthy(self.created_to)
    THEN self
    ELSE SearchPartition(self.stars_min, self.stars_max, earliest, tday)

\* A mutation of split_stars: the low child ends one below the midpoint.
split_stars_gap(self) ==
    IF self.stars_min >= self.stars_max
    THEN <<>>
    ELSE LET midpoint == (self.stars_min + self.stars_max) \div 2
         IN  << SearchPartition(midpoint + 1, self.stars_max,
                                self.created_from, self.created_to),
                SearchPartition(self.stars_min, midpoint - 1,
                                self.created_from, self.created_to) >>

\* A mutation of split_stars: the guard is > where the code has >=.
split_stars_eq(self) ==
    IF self.stars_min > self.stars_max
    THEN <<>>
    ELSE LET midpoint == (self.stars_min + self.stars_max) \div 2
         IN  << SearchPartition(midpoint + 1, self.stars_max,
                                self.created_from, self.created_to),
                SearchPartition(self.stars_min, midpoint,
                                self.created_from, self.created_to) >>

\* split_stars: <<high, low>>, or <<>> for None.  // floors, as \div does.
split_stars(self) ==
    IF self.stars_min >= self.stars_max
    THEN <<>>
    ELSE LET midpoint == (self.stars_min + self.stars_max) \div 2
         IN  << SearchPartition(midpoint + 1, self.stars_max,
                                self.created_from, self.created_to),
                SearchPartition(self.stars_min, midpoint,
                                self.created_from, self.created_to) >>

\* A mutation of split_dates: the second child starts on the midpoint day.
split_dates_overlap(self) ==
    IF ~Truthy(self.created_from) \/ ~Truthy(self.created_to)
    THEN <<>>
    ELSE IF self.created_from >= self.created_to
    THEN <<>>
    ELSE LET span_days == self.created_to - self.created_from
             midpoint == self.created_from + (span_days \div 2)
         IN  << SearchPartition(self.stars_min, self.stars_max,
                                self.created_from, midpoint),
                SearchPartition(self.stars_min, self.stars_max,
                                midpoint, self.created_to) >>

\* split_dates: <<first, second>>, or <<>> for None.
split_dates(self) ==
    IF ~Truthy(self.created_from) \/ ~Truthy(self.created_to)
    THEN <<>>
    ELSE IF self.created_from >= self.created_to
    THEN <<>>
    ELSE LET span_days == self.created_to - self.created_from
             midpoint == self.created_from + (span_days \div 2)
         IN  << SearchPartition(self.stars_min, self.stars_max,
                                self.created_from, midpoint),
                SearchPartition(self.stars_min, self.stars_max,
                                midpoint + 1, self.created_to) >>

priority_key(self) ==
    LET width == self.stars_max - self.stars_min
        date_width == IF Truthy(self.created_from) /\ Truthy(self.created_to)
                      THEN self.created_to - self.created_from
                      ELSE 0
    IN  <<self.stars_max, -width, -date_width>>


(***************************************************************************)
(* SearchPartition's methods on their own: a partition is drawn from a     *)
(* bounded set, a method is called on it and its result kept.              *)
(***************************************************************************)
StarRange == (0 - 1)..MaxStar
DateRange == EARLIEST_GITHUB_DATE..(EARLIEST_GITHUB_DATE + MaxDays)

\* The partitions a SearchPartition(...) call can build: both dates or none.
Partitions ==
    { SearchPartition(a, b, None, None) : a \in StarRange, b \in StarRange }
    \cup { SearchPartition(a, b, f, t) :
             a \in StarRange, b \in StarRange, f \in DateRange, t \in DateRange }

KInert ==
    /\ settings = [target_repo_count |-> 0, page_size |-> 0, min_stars |-> 0]
    /\ today = None
    /\ pc = "off"
    /\ stats = [partitions_processed |-> 0, partitions_split |-> 0,
                partitions_skipped |-> 0, repos_persisted |-> 0,
                duplicate_repo_nodes |-> 0, max_star_count |-> 0]
    /\ queue = {}
    /\ queue_counter = 0
    /\ seen_repo_nodes = {}
    /\ popped = <<>>
    /\ remaining = 0
    /\ cursor = None
    /\ persisted = 0
    /\ duplicates = 0
    /\ run = [status |-> "none", repo_count |-> 0, error_message |-> ""]
    /\ sink = [i \in 1..MaxIds |-> 0]
    /\ committed = {}
    /\ pending = {}
    /\ returned = [ids |-> {}, n |-> 0]
    /\ last_ingest = <<0, 0>>
    /\ exc = ""
    /\ last_step = "none"
    /\ probe_count = 0
    /\ search_request = [first |-> 0, after |-> 0, n |-> 0]
    /\ page = [read |-> FALSE]
    /\ settled = {}

CInert ==
    /\ csettings = [max_retries |-> 0, base_backoff_seconds |-> 0,
                    min_request_interval_seconds |-> 0, min_remaining_points |-> 0]
    /\ cpc = "off"
    /\ attempt = 0
    /\ clock = 0
    /\ last_request_at = 0
    /\ last_error = "None"
    /\ outcome = "none"
    /\ requested = 0
    /\ request_gap = 0
    /\ backoffs = <<>>
    /\ last_sleep = 0
    /\ resp = [transport |-> "none"]
    /\ call_requests = 0
    /\ wait_from = "none"
    /\ raised = [kind |-> "none"]
    /\ reset_due = [read |-> 0, at |-> 0]
    /\ started_after = "none"
    /\ sleep_call = [called |-> FALSE]

PInert ==
    /\ p_in = SearchPartition(0, 0, None, None)
    /\ p_op = "off"
    /\ p_res = <<>>

PInit ==
    /\ p_in \in Partitions
    /\ p_op = "none"
    /\ p_res = <<>>
    /\ KInert
    /\ CInert

CallSplitStars ==
    /\ p_op = "none"
    /\ p_op' = "split_stars"
    /\ p_res' = split_stars(p_in)
    /\ UNCHANGED <<p_in, kvars, cvars>>

CallSplitDates ==
    /\ p_op = "none"
    /\ p_op' = "split_dates"
    /\ p_res' = split_dates(p_in)
    /\ UNCHANGED <<p_in, kvars, cvars>>

CallWithDateWindow ==
    /\ p_op = "none"
    /\ \E tday \in DateRange :
         p_res' = <<with_date_window(p_in, tday, EARLIEST_GITHUB_DATE)>>
    /\ p_op' = "with_date_window"
    /\ UNCHANGED <<p_in, kvars, cvars>>

\* The caller goes on with one of the partitions the call returned.
TakeResult ==
    /\ p_op \in {"split_stars", "split_dates", "with_date_window"}
    /\ \E i \in 1..Len(p_res) : p_in' = p_res[i]
    /\ p_op' = "none"
    /\ p_res' = <<>>
    /\ UNCHANGED <<kvars, cvars>>

PNext == CallSplitStars \/ CallSplitDates \/ CallWithDateWindow \/ TakeResult

PartSpec == PInit /\ [][PNext]_vars

StarSet(p) == p.stars_min..p.stars_max
DaySet(p) == p.created_from..p.created_to
HasDates(p) == p.created_from # None /\ p.created_to # None

\* C1: for stars_min < stars_max, split_stars returns exactly high = [mid+1, stars_max]
\* and low = [stars_min, mid], mid the floor of the mean of the bounds; the two score
\* ranges are disjoint, their union is [stars_min, stars_max], and both children keep
\* the parent's dates.
C1_SplitStarsExact ==
    (p_op = "split_stars" /\ p_in.stars_min < p_in.stars_max) =>
        /\ Len(p_res) = 2
        /\ \E mid \in StarSet(p_in) :
             /\ 2 * mid <= p_in.stars_min + p_in.stars_max
             /\ p_in.stars_min + p_in.stars_max < 2 * mid + 2
             /\ p_res[1].stars_min = mid + 1 /\ p_res[1].stars_max = p_in.stars_max
             /\ p_res[2].stars_min = p_in.stars_min /\ p_res[2].stars_max = mid
        /\ StarSet(p_res[1]) \cap StarSet(p_res[2]) = {}
        /\ StarSet(p_res[1]) \cup StarSet(p_res[2]) = StarSet(p_in)
        /\ \A i \in {1, 2} :
             /\ p_res[i].created_from = p_in.created_from
             /\ p_res[i].created_to = p_in.created_to

C1_Witness ==
    /\ p_op = "split_stars"
    /\ p_in.stars_min = 0 - 1 /\ p_in.stars_max = 2
    /\ HasDates(p_in)
    /\ Len(p_res) = 2

\* C2: for a partition with both dates and created_from < created_to, split_dates
\* returns first = [created_from, mid] and second = [mid + 1 day, created_to] with
\* mid = created_from + floor(span_days / 2); the day ranges are disjoint, contiguous,
\* both non-empty, their union is [created_from, created_to], and both children keep
\* the parent's score bounds.
C2_SplitDatesExact ==
    (p_op = "split_dates" /\ HasDates(p_in) /\ p_in.created_from < p_in.created_to) =>
        /\ Len(p_res) = 2
        /\ \E half \in 0..(p_in.created_to - p_in.created_from) :
             /\ 2 * half <= p_in.created_to - p_in.created_from
             /\ p_in.created_to - p_in.created_from < 2 * half + 2
             /\ p_res[1].created_from = p_in.created_from
             /\ p_res[1].created_to = p_in.created_from + half
             /\ p_res[2].created_from = p_in.created_from + half + 1
             /\ p_res[2].created_to = p_in.created_to
        /\ DaySet(p_res[1]) # {} /\ DaySet(p_res[2]) # {}
        /\ DaySet(p_res[1]) \cap DaySet(p_res[2]) = {}
        /\ p_res[2].created_from = p_res[1].created_to + 1
        /\ DaySet(p_res[1]) \cup DaySet(p_res[2]) = DaySet(p_in)
        /\ \A i \in {1, 2} :
             /\ p_res[i].stars_min = p_in.stars_min
             /\ p_res[i].stars_max = p_in.stars_max

C2_Witness ==
    /\ p_op = "split_dates"
    /\ p_in.created_from = EARLIEST_GITHUB_DATE
    /\ p_in.created_to = EARLIEST_GITHUB_DATE + 3
    /\ Len(p_res) = 2
    /\ p_res[1].created_to = EARLIEST_GITHUB_DATE + 1

\* C3: split_stars returns None when stars_min = stars_max, and split_dates returns
\* None when a date is absent or created_from = created_to: no child is produced.
C3_NoSplitOfSinglePoint ==
    /\ (p_op = "split_stars" /\ p_in.stars_min = p_in.stars_max) => p_res = <<>>
    /\ (p_op = "split_dates"
          /\ (~HasDates(p_in) \/ p_in.created_from = p_in.created_to)) => p_res = <<>>

C3_Witness ==
    /\ p_op = "split_dates"
    /\ HasDates(p_in)
    /\ p_in.created_from = p_in.created_to
    /\ p_in.stars_min = p_in.stars_max
    /\ p_res = <<>>


(***************************************************************************)
(* crawler.py: the queue                                                   *)
(***************************************************************************)
\* Python's ordering of the heap's tuples, on the four integers before the
\* partition; the counter makes them differ, so partitions are never compared.
TupleLess(e, f) ==
    \/ e[1] < f[1]
    \/ e[1] = f[1] /\ e[2] < f[2]
    \/ e[1] = f[1] /\ e[2] = f[2] /\ e[3] < f[3]
    \/ e[1] = f[1] /\ e[2] = f[2] /\ e[3] = f[3] /\ e[4] < f[4]

\* A mutation of heappop: the greatest entry of the heap is returned.
heappop_greatest(q) == CHOOSE e \in q : \A f \in q \ {e} : TupleLess(f, e)

\* heapq.heappop: the smallest entry of the heap.
heappop(q) == CHOOSE e \in q : \A f \in q \ {e} : TupleLess(e, f)

\* A mutation of HeapEntry: the priority is pushed without the sign change.
HeapEntry_min_first(partition, n) ==
    LET star_max == priority_key(partition)[1]
        star_width == partition.stars_max - partition.stars_min
        date_width == IF Truthy(partition.created_from) /\ Truthy(partition.created_to)
                      THEN partition.created_to - partition.created_from
                      ELSE 0
    IN  <<star_max, star_width, date_width, n, partition>>

\* The tuple _push_partition pushes for a partition, n the counter's next value.
HeapEntry(partition, n) ==
    LET star_max == priority_key(partition)[1]
        star_width == partition.stars_max - partition.stars_min
        date_width == IF Truthy(partition.created_from) /\ Truthy(partition.created_to)
                      THEN partition.created_to - partition.created_from
                      ELSE 0
    IN  <<0 - star_max, star_width, date_width, n, partition>>

\* _push_partition for each partition of a sequence, in order; the counter after
\* them is n + Len(parts).
PushAll(q, parts, n) ==
    q \cup { HeapEntry(parts[i], n + i - 1) : i \in 1..Len(parts) }

\* A mutation of _split_partition: the date split is tried before the score split.
_split_partition_dates_first(partition, tday) ==
    LET with_dates == with_date_window(partition, tday, EARLIEST_GITHUB_DATE)
    IN  IF split_dates(with_dates) # <<>>
        THEN split_dates(with_dates)
        ELSE split_stars(partition)

_split_partition(partition, tday) ==
    LET star_split == split_stars(partition)
        with_dates == with_date_window(partition, tday, EARLIEST_GITHUB_DATE)
    IN  IF star_split # <<>>
        THEN star_split
        ELSE IF with_dates # partition
        THEN split_dates(with_dates)
        ELSE split_dates(partition)

(***************************************************************************)
(* crawler.py: what the remote returns                                     *)
(***************************************************************************)
Ids == 1..MaxIds
NoId == 0       \* a null node, or a node without an id
Cursors == {None, 1, 2}

NodeSeqs(n) == UNION { [1..k -> Ids \cup {NoId}] : k \in 0..n }

\* The "search" blocks of a response to a request of `first` nodes.
SearchBlocks(first) ==
    [ has_count : BOOLEAN, repositoryCount : {0, 1000, 5000},
      nodes : NodeSeqs(first), hasNextPage : BOOLEAN, endCursor : Cursors ]

\* The loop over a page's nodes: the ids new to `seen` in page order, the seen set
\* after the page, and the duplicates met.
RECURSIVE ScanNodes(_, _, _, _)
ScanNodes(nodes, seen, rows, dups) ==
    IF nodes = <<>>
    THEN [seen |-> seen, rows |-> rows, dups |-> dups]
    ELSE LET node_id == Head(nodes)
         IN  IF node_id = NoId
             THEN ScanNodes(Tail(nodes), seen, rows, dups)
             ELSE IF node_id \in seen
             THEN ScanNodes(Tail(nodes), seen, rows, dups + 1)
             ELSE ScanNodes(Tail(nodes), seen \cup {node_id},
                            Append(rows, node_id), dups)

\* A mutation of ScanPage: ids are checked against the seen set but never added.
ScanPage_no_add(nodes, seen) ==
    LET fresh == SelectSeq(nodes, LAMBDA x : x # NoId /\ x \notin seen)
        old == SelectSeq(nodes, LAMBDA x : x # NoId /\ x \in seen)
    IN  [seen |-> seen, rows |-> fresh, dups |-> Len(old)]

ScanPage(nodes, seen) == ScanNodes(nodes, seen, <<>>, 0)

\* How often id occurs in a sequence of node ids.
Occurrences(nodes, id) == Cardinality({ i \in 1..Len(nodes) : nodes[i] = id })

(***************************************************************************)
(* crawler.py: GitHubStarCrawler.crawl_once                                *)
(***************************************************************************)
\* The store's connection: the entities committed, and those written in the
\* transaction that is open.
Database(done, open) == [committed |-> done, pending |-> open]

\* self.conn.commit()
commit(db) == Database(db.committed \cup db.pending, {})

\* self.conn.rollback()
rollback(db) == Database(db.committed, {})

\* The database after a call of the store.
Committed(db) == committed' = db.committed /\ pending' = db.pending

\* upsert_page meets no fault.
NoFault == 0 - 1

\* A mutation of upsert_page: a fault leaves the transaction open.
upsert_page_no_rollback(db, rows, fail_at) ==
    IF rows = <<>>
    THEN [db |-> db, raised |-> FALSE]
    ELSE LET ids(k) == { rows[i] : i \in 1..k }
         IN  IF fail_at = NoFault
             THEN [db |-> commit(Database(db.committed, db.pending \cup ids(Len(rows)))),
                   raised |-> FALSE]
             ELSE [db |-> Database(db.committed, db.pending \cup ids(fail_at)),
                   raised |-> TRUE]

\* PostgresStore.upsert_page on the rows of one page, a fault striking after
\* fail_at of them were written (NoFault: none strikes): an empty batch returns at
\* once; the rows are written and committed together, or the transaction is rolled
\* back and the fault raised.
upsert_page(db, rows, fail_at) ==
    IF rows = <<>>
    THEN [db |-> db, raised |-> FALSE]
    ELSE LET ids(k) == { rows[i] : i \in 1..k }
         IN  IF fail_at = NoFault
             THEN [db |-> commit(Database(db.committed, db.pending \cup ids(Len(rows)))),
                   raised |-> FALSE]
             ELSE [db |-> rollback(Database(db.committed, db.pending \cup ids(fail_at))),
                   raised |-> TRUE]

\* No _search_page call yet.
NoSearch == [first |-> 0, after |-> None, n |-> 0]

\* self._search_page(query_text, page_size, cursor): the variables of the request,
\* counted for the popped partition.
SearchRequest(page_size, after, before) ==
    [first |-> page_size, after |-> after, n |-> Min(before.n + 1, 2)]

\* No search block was worked on by _ingest_partition for the popped partition.
NoPage ==
    [read |-> FALSE, has_nodes |-> FALSE, hasNextPage |-> FALSE, endCursor |-> None,
     batches |-> 0]

\* search_block as the loop body of _ingest_partition reads it: nodes, pageInfo's
\* hasNextPage and endCursor; with the calls of upsert_page made for it.
PageRead(block, batches) ==
    [read |-> TRUE, has_nodes |-> block.nodes # <<>>, hasNextPage |-> block.hasNextPage,
     endCursor |-> block.endCursor, batches |-> batches]

\* A mutation of PageSize: a full page is asked for whatever is left to persist.
PageSize_full(page_size, row_limit, done) == page_size

\* page_size = min(self.settings.page_size, row_limit - persisted), and for the
\* probe min(self.settings.page_size, remaining).
PageSize(page_size, row_limit, done) == Min(page_size, row_limit - done)

CrawlStats ==
    [partitions_processed |-> 0, partitions_split |-> 0, partitions_skipped |-> 0,
     repos_persisted |-> 0, duplicate_repo_nodes |-> 0, max_star_count |-> 0]

Configs ==
    [ target_repo_count : 1..2, page_size : 1..2, min_stars : 0..1 ]

Init ==
    /\ settings \in Configs
    /\ today \in (EARLIEST_GITHUB_DATE + 1)..(EARLIEST_GITHUB_DATE + MaxWindow)
    /\ pc = "start"
    /\ stats = CrawlStats
    /\ queue = {}
    /\ queue_counter = 0
    /\ seen_repo_nodes = {}
    /\ popped = <<>>
    /\ remaining = 0
    /\ cursor = None
    /\ persisted = 0
    /\ duplicates = 0
    /\ run = [status |-> "none", repo_count |-> 0, error_message |-> ""]
    /\ sink = [i \in Ids |-> 0]
    /\ committed = {}
    /\ pending = {}
    /\ returned = [ids |-> {}, n |-> 0]
    /\ last_ingest = <<0, 0>>
    /\ exc = ""
    /\ last_step = "none"
    /\ probe_count = 0
    /\ search_request = NoSearch
    /\ page = NoPage
    /\ settled = {}
    /\ PInert
    /\ CInert

\* A fault leaves the try block: the locals of _ingest_partition are gone.
Raise(what) ==
    /\ pc' = "raised"
    /\ exc' = what
    /\ persisted' = 0
    /\ duplicates' = 0
    /\ cursor' = None
    /\ UNCHANGED last_ingest

\* stats = CrawlStats(); run_id = self.store.start_run(...)
StartRun ==
    /\ pc = "start"
    /\ run' = [run EXCEPT !.status = "running"]
    /\ pc' = "max_stars"
    /\ last_step' = "start_run"
    /\ Committed(commit(Database(committed, pending)))
    /\ UNCHANGED <<settings, today, stats, queue, queue_counter, seen_repo_nodes,
                   popped, remaining, cursor, persisted, duplicates,
                   sink, returned, last_ingest, exc, probe_count,
                   search_request, page, settled, pvars, cvars>>

\* max_stars = self._max_stars(); the initial partition is pushed.
MaxStars ==
    /\ pc = "max_stars"
    /\ last_step' = "max_stars"
    /\ \/ \* self.github.execute raises, or no node carries a stargazerCount
          /\ \E what \in {"remote", "undetermined"} : Raise(what)
          /\ UNCHANGED <<stats, queue, queue_counter>>
       \/ \E max_stars \in (0..MaxTop) \cup {1000000} :
            /\ stats' = [stats EXCEPT !.max_star_count = max_stars]
            /\ queue' = PushAll(queue,
                   <<SearchPartition(settings.min_stars, max_stars, None, None)>>,
                   queue_counter)
            /\ queue_counter' = queue_counter + 1
            /\ pc' = "loop"
            /\ UNCHANGED <<exc, persisted, duplicates, cursor, last_ingest>>
    /\ UNCHANGED <<settings, today, seen_repo_nodes, popped, remaining, run, sink,
                   committed, pending, returned, last_ingest, probe_count, search_request,
                   page, settled, pvars, cvars>>

\* The condition of the run loop.
LoopContinues ==
    queue # {} /\ stats.repos_persisted < settings.target_repo_count

\* heappop; partitions_processed += 1; remaining = target - repos_persisted
Pop ==
    /\ pc = "loop"
    /\ LoopContinues
    /\ stats.partitions_processed < MaxPops
    /\ popped' = heappop(queue)
    /\ queue' = queue \ {heappop(queue)}
    /\ stats' = [stats EXCEPT !.partitions_processed = @ + 1]
    /\ remaining' = settings.target_repo_count - stats.repos_persisted
    /\ pc' = "probe"
    /\ last_step' = "pop"
    /\ search_request' = [search_request EXCEPT !.n = 0]
    /\ page' = NoPage
    /\ UNCHANGED <<settings, today, queue_counter, seen_repo_nodes,
                   cursor, persisted, duplicates, run, sink, committed, pending, returned,
                   last_ingest, exc, probe_count, settled, pvars, cvars>>

\* A mutation of RunStatus: the target must be exceeded, not reached.
RunStatus_strict(st) ==
    IF st.repos_persisted > settings.target_repo_count THEN "succeeded" ELSE "partial"

\* The status a run that leaves the loop is finalized with.
RunStatus(st) ==
    IF st.repos_persisted >= settings.target_repo_count THEN "succeeded" ELSE "partial"

\* The loop is left: self.store.finish_run(status=...); return stats
Finish ==
    /\ pc = "loop"
    /\ ~LoopContinues
    /\ run' = [run EXCEPT !.status = RunStatus(stats),
                          !.repo_count = stats.repos_persisted]
    /\ pc' = "done"
    /\ last_step' = "finish"
    /\ Committed(commit(Database(committed, pending)))
    /\ UNCHANGED <<settings, today, stats, queue, queue_counter, seen_repo_nodes,
                   popped, remaining, cursor, persisted, duplicates,
                   sink, returned, last_ingest, exc, probe_count,
                   search_request, page, settled, pvars, cvars>>

\* A mutation of OnEmptyPartition: the empty partition is counted as split too.
OnEmptyPartition_split(st) ==
    [st EXCEPT !.partitions_skipped = @ + 1, !.partitions_split = @ + 1]

\* The counters after a probe that reported no result.
OnEmptyPartition(st) ==
    [st EXCEPT !.partitions_skipped = @ + 1]

\* A mutation of PagingEnds: a missing endCursor does not end the paging.
PagingEnds_any_cursor(block, done, row_limit) ==
    \/ ~block.hasNextPage
    \/ ~(done < row_limit)

\* After a page with nodes was handed to upsert_page: the loop of _ingest_partition
\* is left on hasNextPage false, on a null endCursor, or, at its head, when the
\* rows persisted reach the row limit.
PagingEnds(block, done, row_limit) ==
    \/ ~block.hasNextPage
    \/ block.endCursor = None
    \/ ~(done < row_limit)

\* One iteration of _ingest_partition's loop on a block, with p rows persisted and
\* d duplicates met before it: the nodes are deduplicated, the fresh rows go to
\* upsert_page, and the loop goes on to the next page, or ends and crawl_once adds
\* the counts to the stats.
IngestBlock(block, p, d) ==
    LET nodes == block.nodes
        scan == ScanPage(nodes, seen_repo_nodes)
        n_rows == Len(scan.rows)
        row_ids == { scan.rows[i] : i \in 1..n_rows }
        Return(pp, dd) ==
            /\ stats' = [stats EXCEPT !.repos_persisted = @ + pp,
                                      !.duplicate_repo_nodes = @ + dd]
            /\ last_ingest' = <<pp, dd>>
            /\ persisted' = 0
            /\ duplicates' = 0
            /\ cursor' = None
            /\ pc' = "loop"
            /\ exc' = ""
    IN
    IF nodes = <<>>
    THEN /\ Return(p, d)
         /\ page' = PageRead(block, 0)
         /\ UNCHANGED <<seen_repo_nodes, sink, committed, pending, returned>>
    ELSE
    /\ seen_repo_nodes' = scan.seen
    /\ page' = PageRead(block, 1)
    /\ returned' = [ids |-> returned.ids \cup ({ nodes[i] : i \in 1..Len(nodes) } \ {NoId}),
                     n |-> returned.n
                           + Cardinality({ i \in 1..Len(nodes) : nodes[i] # NoId })]
    /\ sink' = [i \in Ids |-> sink[i] + Occurrences(scan.rows, i)]
    /\ \E fail_at \in (0..n_rows) \cup {NoFault} :
       LET done == upsert_page(Database(committed, pending), scan.rows, fail_at)
       IN
       /\ Committed(done.db)
       /\ IF done.raised
          THEN \* upsert_page raises: nothing below it in the loop body runs
               /\ Raise("persistence")
               /\ UNCHANGED stats
          ELSE \* upsert_page returns; persisted += len(repo_rows)
          IF PagingEnds(block, p + n_rows, remaining)
             THEN Return(p + n_rows, d + scan.dups)
             ELSE /\ persisted' = p + n_rows
                  /\ duplicates' = d + scan.dups
                  /\ cursor' = block.endCursor
                  /\ pc' = "fetch"
                  /\ exc' = ""
                  /\ UNCHANGED <<stats, last_ingest>>

\* The probe of the popped partition and what is done on its count: skip, split,
\* or _ingest_partition started on the probe's block.
Probe ==
    /\ pc = "probe"
    /\ search_request' = SearchRequest(PageSize(settings.page_size, remaining, 0),
                                        None, search_request)
    /\ LET partition == popped[5]
           page_size == PageSize(settings.page_size, remaining, 0)
       IN
       \/ \* self._search_page raises
          /\ Raise("remote")
          /\ last_step' = "probe_fault"
          /\ page' = NoPage
          /\ UNCHANGED settled
          /\ UNCHANGED <<stats, queue, queue_counter, probe_count, seen_repo_nodes,
                         sink, committed, pending, returned>>
       \/ \E block \in SearchBlocks(page_size) :
            IF ~block.has_count
            THEN \* _partition_count: neither repositoryCount nor totalCount
                 /\ Raise("malformed")
                 /\ last_step' = "probe_fault"
                 /\ page' = NoPage
                 /\ UNCHANGED settled
                 /\ UNCHANGED <<stats, queue, queue_counter, probe_count,
                                seen_repo_nodes, sink, committed, pending, returned>>
            ELSE
            /\ probe_count' = block.repositoryCount
            /\ IF block.repositoryCount = 0
               THEN /\ stats' = OnEmptyPartition(stats)
                    /\ pc' = "loop"
                    /\ last_step' = "skip"
                    /\ page' = NoPage
                    /\ settled' = settled \cup {partition}
                    /\ UNCHANGED <<queue, queue_counter, cursor, persisted, duplicates,
                                   exc, seen_repo_nodes, sink, committed, pending, returned,
                                   last_ingest>>
               ELSE IF /\ block.repositoryCount > MAX_PARTITION_RESULTS
                       /\ _split_partition(partition, today) # <<>>
               THEN /\ stats' = [stats EXCEPT !.partitions_split = @ + 1]
                    /\ queue' = PushAll(queue, _split_partition(partition, today),
                                        queue_counter)
                    /\ queue_counter' = queue_counter + 2
                    /\ pc' = "loop"
                    /\ last_step' = "split"
                    /\ page' = NoPage
                    /\ UNCHANGED settled
                    /\ UNCHANGED <<cursor, persisted, duplicates, exc, last_ingest,
                                   seen_repo_nodes, sink, committed, pending, returned>>
               ELSE \* _ingest_partition(..., first_search_block=block)
                    /\ IngestBlock(block, 0, 0)
                    /\ last_step' = "ingest"
                    /\ settled' = settled \cup {partition}
                    /\ UNCHANGED <<queue, queue_counter>>
    /\ UNCHANGED <<settings, today, popped, remaining, run, pvars, cvars>>

\* search_block is None: the next page is requested with the cursor, and the loop
\* body runs on it.
IngestPage ==
    /\ pc = "fetch"
    /\ stats.duplicate_repo_nodes + duplicates < MaxDups
    /\ last_step' = "page"
    /\ search_request' = SearchRequest(PageSize(settings.page_size, remaining, persisted),
                                        cursor, search_request)
    /\ \/ /\ Raise("remote")
          /\ UNCHANGED <<stats, seen_repo_nodes, sink, committed, pending, returned, page>>
       \/ \E block \in SearchBlocks(PageSize(settings.page_size, remaining, persisted)) :
            /\ block.has_count /\ block.repositoryCount = 1000
            /\ IngestBlock(block, persisted, duplicates)
    /\ UNCHANGED <<settings, today, queue, queue_counter, popped, remaining, run,
                   probe_count, settled, pvars, cvars>>

\* A mutation of FailedRun: the fault's text is not recorded.
FailedRun_no_text(r, st, e) ==
    [r EXCEPT !.status = "failed", !.repo_count = st.repos_persisted]

\* The row finish_run writes in the except branch: error_message=str(exc).
FailedRun(r, st, e) ==
    [r EXCEPT !.status = "failed", !.repo_count = st.repos_persisted,
              !.error_message = e]

\* except Exception as exc: finish_run(status="failed", ...); raise
HandleFault ==
    /\ pc = "raised"
    /\ run' = FailedRun(run, stats, exc)
    /\ pc' = "failed"
    /\ last_step' = "except"
    /\ Committed(commit(Database(committed, pending)))
    /\ UNCHANGED <<settings, today, stats, queue, queue_counter, seen_repo_nodes,
                   popped, remaining, cursor, persisted, duplicates,
                   sink, returned, last_ingest, exc, probe_count,
                   search_request, page, settled, pvars, cvars>>

Next ==
    \/ StartRun
    \/ MaxStars
    \/ Pop
    \/ Finish
    \/ Probe
    \/ IngestPage
    \/ HandleFault

Spec == Init /\ [][Next]_vars

(***************************************************************************)
(* Properties of the orchestrator                                          *)
(***************************************************************************)
StarWidth(p) == p.stars_max - p.stars_min
DateWidth(p) == IF HasDates(p) THEN p.created_to - p.created_from ELSE 0
PartitionsOf(q) == { e[5] : e \in q }

\* Heap entry e goes before heap entry f by the partitions they carry (e[5], f[5])
\* and the sequence numbers they were pushed with (e[4], f[4]).
ServedBefore(e, f) ==
    LET p == e[5]
        q == f[5]
    IN  \/ p.stars_max > q.stars_max
        \/ /\ p.stars_max = q.stars_max
           /\ \/ StarWidth(p) < StarWidth(q)
              \/ /\ StarWidth(p) = StarWidth(q)
                 /\ \/ DateWidth(p) < DateWidth(q)
                    \/ DateWidth(p) = DateWidth(q) /\ e[4] < f[4]

\* C4: the partition a pop returns has the highest stars_max of the queue; among
\* equal stars_max the narrower score width, then the narrower date width, then
\* the earlier push goes first.
C4_PopOrder ==
    pc = "probe" => \A f \in queue : ServedBefore(popped, f)

C4_Witness ==
    /\ pc = "probe"
    /\ \E f \in queue :
         /\ f[5].stars_max = popped[5].stars_max
         /\ StarWidth(f[5]) = StarWidth(popped[5])
         /\ DateWidth(f[5]) = DateWidth(popped[5])
         /\ popped[4] < f[4]

\* The counts of the ingestion under way, which reach the stats when it returns.
InFlight(x) == IF pc = "fetch" THEN x ELSE 0

\* C5: within a run every entity id an ingested page held was handed to the sink
\* exactly once, and every further occurrence raised the duplicate counter by one
\* and the persisted count by nothing.
C5_PersistedOnce ==
    /\ \A i \in Ids : sink[i] <= 1
    /\ \A i \in returned.ids : sink[i] = 1
    /\ pc \notin {"raised", "failed"} =>
         /\ stats.repos_persisted + InFlight(persisted) = Cardinality(returned.ids)
         /\ stats.duplicate_repo_nodes + InFlight(duplicates)
              = returned.n - Cardinality(returned.ids)

\* A one-node first page of a later partition held an id seen before it.
C5_Witness ==
    /\ pc = "loop"
    /\ last_step = "ingest"
    /\ settings.page_size = 1
    /\ last_ingest = <<0, 1>>
    /\ stats.duplicate_repo_nodes = 1
    /\ stats.repos_persisted = 1
    /\ sink[1] = 1

\* C6: a probe that reports a count of 0 hands nothing to the sink, pushes no
\* child, and raises the skip counter and no other counter.
C6_SkipOnly ==
    [][ (pc = "probe" /\ pc' # "raised" /\ probe_count' = 0) =>
          /\ sink' = sink
          /\ committed' = committed
          /\ seen_repo_nodes' = seen_repo_nodes
          /\ queue' = queue
          /\ stats' = [stats EXCEPT !.partitions_skipped = @ + 1] ]_vars

C6_Witness ==
    /\ last_step = "skip"
    /\ probe_count = 0
    /\ stats.partitions_skipped = 1
    /\ stats.partitions_split = 1
    /\ queue # {}

\* The children the claim names for a partition, <<>> when it names none.
ExpectedSplit(p) ==
    IF p.stars_min < p.stars_max
    THEN split_stars(p)
    ELSE IF ~HasDates(p)
    THEN split_dates(SearchPartition(p.stars_min, p.stars_max,
                                     EARLIEST_GITHUB_DATE, today))
    ELSE split_dates(p)

\* C7: when the probed count exceeds max_partition_results and a split is possible,
\* the popped partition is replaced on the queue by exactly two children: those of
\* the score split if stars_min < stars_max, else of the date split of the partition
\* with the window [earliest, today] if it had no dates, else of its own date split;
\* the parent is not requeued, nothing is ingested, and the split counter grows by one.
C7_SplitReplaces ==
    [][ (/\ pc = "probe" /\ pc' # "raised"
         /\ probe_count' > MAX_PARTITION_RESULTS
         /\ ExpectedSplit(popped[5]) # <<>>) =>
          LET kids == ExpectedSplit(popped[5])
          IN  /\ pc' = "loop"
              /\ queue \subseteq queue'
              /\ Cardinality(queue') = Cardinality(queue) + 2
              /\ PartitionsOf(queue' \ queue) = {kids[1], kids[2]}
              /\ popped[5] \notin PartitionsOf(queue')
              /\ sink' = sink
              /\ committed' = committed
              /\ seen_repo_nodes' = seen_repo_nodes
              /\ stats' = [stats EXCEPT !.partitions_split = @ + 1] ]_vars

C7_Witness ==
    /\ last_step = "split"
    /\ popped[5] = SearchPartition(0, 1000000, None, None)
    /\ probe_count = 5000
    /\ PartitionsOf(queue) = { SearchPartition(500001, 1000000, None, None),
                               SearchPartition(0, 500000, None, None) }

\* C10: a run that ends without a fault ends with the queue empty or the persisted
\* count at the target, no earlier, and is finalized as succeeded exactly when the
\* persisted count reached the target, otherwise as partial.
C10_RunEnds ==
    /\ pc = "done" =>
         /\ queue = {} \/ stats.repos_persisted >= settings.target_repo_count
         /\ run.repo_count = stats.repos_persisted
         /\ run.status = IF stats.repos_persisted >= settings.target_repo_count
                         THEN "succeeded" ELSE "partial"
    /\ pc \in {"max_stars", "loop", "probe", "fetch"} => run.status = "running"

\* One root partition, two pages of one fresh entity each, target 2.
C10_Witness ==
    /\ pc = "done"
    /\ run.status = "succeeded"
    /\ settings.target_repo_count = 2
    /\ settings.page_size = 1
    /\ run.repo_count = 2
    /\ stats.partitions_processed = 1
    /\ stats.duplicate_repo_nodes = 0
    /\ last_step = "finish"
    /\ last_ingest = <<2, 0>>

Unsplittable(p) == _split_partition(p, today) = <<>>

\* C12: a popped partition whose probed count exceeds the cap and that cannot be
\* split is counted as skipped and dropped: nothing of it is ingested or
\* persisted, it is not requeued, and the run goes on with the next partition.
C12_UnsplittableSkipped ==
    [][/\ pc = "probe"
       /\ last_step' \in {"skip", "split", "ingest"}
       /\ probe_count' > MAX_PARTITION_RESULTS
       /\ Unsplittable(popped[5])
       => /\ stats'.partitions_skipped = stats.partitions_skipped + 1
          /\ stats'.repos_persisted = stats.repos_persisted
          /\ seen_repo_nodes' = seen_repo_nodes
          /\ sink' = sink
          /\ committed' = committed
          /\ queue' = queue
          /\ pc' = "loop"]_vars

\* C12, as the code behaves: a single-day, single-score partition over the cap
\* was ingested, its rows committed and counted, and no skip was counted.
C12_Witness ==
    /\ pc = "loop"
    /\ last_step = "ingest"
    /\ probe_count > MAX_PARTITION_RESULTS
    /\ Unsplittable(popped[5])
    /\ HasDates(popped[5])
    /\ stats.partitions_skipped = 0
    /\ stats.repos_persisted > 0
    /\ committed # {}

\* crawl_once is one thread of control: as long as a step of it can be taken, a
\* step is taken (every remote call returns, every sleep ends).
FairSpec == Spec /\ WF_vars(Next)

\* The model stops a run that the code would carry on: MaxPops partitions were
\* popped, or MaxDups duplicates were met while paging.
AtModelBound ==
    \/ pc = "loop" /\ LoopContinues /\ stats.partitions_processed >= MaxPops
    \/ pc = "fetch" /\ stats.duplicate_repo_nodes + duplicates >= MaxDups

\* C16: whatever the remote answers, as long as every call returns, crawl_once
\* eventually reaches a final state, the run record finalized as succeeded,
\* partial or failed (runs the model cuts short at its bounds are left aside).
C16_RunTerminates ==
    <>(pc \in {"done", "failed"} \/ AtModelBound)

\* C16, as the code behaves: the ingestion of a partition asked for a further
\* page after a page that brought neither a fresh row nor a duplicate, and is
\* about to ask for the next one, no nearer to its row limit than at its start.
C16_Witness ==
    /\ pc = "fetch"
    /\ last_step = "page"
    /\ search_request.after = 1
    /\ cursor = 2
    /\ persisted = 0
    /\ duplicates = 0
    /\ run.status = "running"

\* C20: for every popped partition exactly one request is made before skip, split
\* or ingest is decided, and it asks for a page of size 1 with no cursor.
C20_ProbeOfPageSizeOne ==
    [][/\ pc = "probe"
       /\ last_step' \in {"skip", "split", "ingest"}
       => /\ search_request'.n = 1
          /\ search_request'.first = 1
          /\ search_request'.after = None]_vars

\* C20, as the code behaves: a partition was split on a probe that asked for a
\* page of two nodes.
C20_Witness ==
    /\ pc = "loop"
    /\ last_step = "split"
    /\ search_request = [first |-> 2, after |-> None, n |-> 1]

\* C21: the remote returning no more nodes than a request asks for, the persisted
\* count of a run, the rows of an ingestion under way included, never exceeds
\* target_repo_count, no more rows are committed than that, and wherever a page is
\* about to be requested (the probe, or a further page of an ingestion) the
\* persisted count is below the target.
C21_WithinTarget ==
    /\ stats.repos_persisted + InFlight(persisted) <= settings.target_repo_count
    /\ Cardinality(committed) <= settings.target_repo_count
    /\ pc \in {"probe", "fetch"} =>
         stats.repos_persisted + InFlight(persisted) < settings.target_repo_count

\* An ingestion ended on a later page because the row limit was reached: the
\* target is 2, the first page held one fresh node of the two asked for, and the
\* second page, asked for with first = 1, brought the second row.
C21_Witness ==
    /\ pc = "loop"
    /\ last_step = "page"
    /\ settings.target_repo_count = 2
    /\ settings.page_size = 2
    /\ search_request.first = 1
    /\ stats.repos_persisted = 2
    /\ last_ingest = <<2, 0>>

\* A step in which _ingest_partition worked on a search block to the end of the
\* loop body: on the probe's block, or on a page it requested.
PageWorked ==
    /\ \/ pc = "probe" /\ last_step' = "ingest"
       \/ pc = "fetch" /\ last_step' = "page" /\ exc' # "remote"
    /\ pc' # "raised"

\* C22: an ingestion starts on the probe's response, no further request made, so
\* the query without cursor is issued once per partition; every further page is
\* requested with the endCursor of the page before it, which is not missing;
\* every page that holds nodes is handed to the sink in one batch; and after a
\* page the paging ends exactly when the page held no node, had hasNextPage
\* false or no endCursor, or the row limit was reached, and goes on with that
\* page's endCursor otherwise.
C22_PagingFromProbe ==
    /\ [](page.read => page.batches = IF page.has_nodes THEN 1 ELSE 0)
    /\ [][pc = "probe" /\ last_step' = "ingest"
          => /\ search_request'.n = 1
             /\ search_request'.after = None
             /\ page'.read]_vars
    /\ [][pc = "fetch" /\ last_step' = "page"
          => /\ page.read
             /\ search_request'.after = page.endCursor
             /\ search_request'.after # None]_vars
    /\ [][PageWorked
          => LET done == IF pc' = "fetch" THEN persisted' ELSE last_ingest'[1]
                 ends == \/ ~page'.has_nodes
                         \/ ~page'.hasNextPage
                         \/ page'.endCursor = None
                         \/ done >= remaining
             IN  /\ page'.read
                 /\ pc' = IF ends THEN "loop" ELSE "fetch"
                 /\ ~ends => cursor' = page'.endCursor]_vars

\* An ingestion of several pages: its last page was requested with the cursor 2
\* of the page before it, and the ingestion ended on that page's hasNextPage
\* false, short of the row limit.
C22_Witness ==
    /\ pc = "loop"
    /\ last_step = "page"
    /\ search_request.n = 2
    /\ search_request.after = 2
    /\ page.read /\ page.has_nodes /\ ~page.hasNextPage
    /\ page.endCursor = 1
    /\ last_ingest[1] < remaining

\* The entities handed to upsert_page in this run that are not committed.
Uncommitted == { i \in Ids : sink[i] > 0 } \ committed

\* C23: when upsert_page fails, no row of its batch is committed, then or by a
\* later commit of the run, and none is left written in an open transaction; the
\* fault leaves crawl_once, which does nothing after it but finalize the run
\* record, and neither the persisted count of the stats nor the repo_count of
\* the run record counts a row of the batch.
C23_FailedBatchRolledBack ==
    /\ [](pending = {})
    /\ [](exc = "persistence" =>
            /\ pc \in {"raised", "failed"}
            /\ Uncommitted # {}
            /\ stats.repos_persisted <= Cardinality(committed)
            /\ pc = "failed" => /\ run.status = "failed"
                                /\ run.repo_count <= Cardinality(committed))
    /\ [][exc' = "persistence" /\ pc \in {"probe", "fetch"}
          => /\ pc' = "raised"
             /\ committed' = committed
             /\ Uncommitted' # Uncommitted
             /\ stats' = stats]_vars
    /\ [][pc = "raised" /\ exc = "persistence"
          => /\ pc' = "failed"
             /\ committed' = committed
             /\ stats' = stats]_vars

\* The second page of an ingestion failed in upsert_page: its entity was handed
\* over and is not committed, the entity of the first page is, and the run
\* record is finalized as failed.
C23_Witness ==
    /\ pc = "failed"
    /\ exc = "persistence"
    /\ last_step = "except"
    /\ committed = {1}
    /\ sink[2] = 1
    /\ run.status = "failed"

\* The invariant of a partition: the score bounds in order, and the dates both
\* absent, or both present and in order.
WellFormed(p) ==
    /\ p.stars_min <= p.stars_max
    /\ \/ p.created_from = None /\ p.created_to = None
       \/ /\ p.created_from # None /\ p.created_to # None
          /\ p.created_from <= p.created_to

\* C24: every partition on the queue, the initial one and every child of a split,
\* has stars_min <= stars_max and its dates both absent or both present and in
\* order, whatever min_stars is configured and whatever maximum the remote reports.
C24_PushedWellFormed ==
    \A e \in queue : WellFormed(e[5])

\* C24, as the code behaves: with min_stars 1 and a reported maximum of 0 the
\* initial partition [1, 0] was pushed.
C24_Witness ==
    /\ pc = "loop"
    /\ last_step = "max_stars"
    /\ settings.min_stars = 1
    /\ stats.max_star_count = 0
    /\ PartitionsOf(queue) = {SearchPartition(1, 0, None, None)}

\* The creation days an entity of the remote may have: the days of the window
\* [EARLIEST_GITHUB_DATE, today], a day before it and a day after it.
CreationDays == (EARLIEST_GITHUB_DATE - 1)..(EARLIEST_GITHUB_DATE + MaxWindow + 1)

\* The (score, creation day) point is in the region partition p asks for
\* (to_query: stars:min..max, and created:from..to when both dates are set).
Covers(p, s, d) ==
    /\ p.stars_min <= s /\ s <= p.stars_max
    /\ HasDates(p) => (p.created_from <= d /\ d <= p.created_to)

\* The initial partition of the run.
Root == SearchPartition(settings.min_stars, stats.max_star_count, None, None)

\* The partition popped and not yet decided on.
InHand == IF pc = "probe" THEN {popped[5]} ELSE {}

\* The scores at which a partition of the run begins or has just ended, within
\* the initial range: between two of them next to each other every partition
\* holds all scores or none.
ScoreMarks ==
    LET all == PartitionsOf(queue) \cup settled \cup InHand
    IN  { s \in {Root.stars_min} \cup { q.stars_min : q \in all }
                                 \cup { q.stars_max + 1 : q \in all } :
            Root.stars_min <= s /\ s <= Root.stars_max }

\* How many partitions, queued, in hand, skipped or ingested, hold the point.
TimesCovered(s, d) ==
    Cardinality({ e \in queue : Covers(e[5], s, d) })
    + Cardinality({ q \in settled \cup InHand : Covers(q, s, d) })

\* C25: while a run goes on and when it has ended without fault, every point
\* (score, creation day) of the initial partition [min_stars, max_stars] is held
\* by exactly one partition among those queued, the one in hand, and those
\* skipped or ingested; so the queued partitions are pairwise disjoint and no
\* split, the attachment of the date window included, drops a point.
C25_ExactCover ==
    pc \in {"loop", "probe", "fetch", "done"} =>
        \A s \in ScoreMarks : \A d \in CreationDays : TimesCovered(s, d) = 1

\* C25, as the code behaves: a partition of a single score without dates was
\* over the cap and was replaced by the two halves of the window
\* [EARLIEST_GITHUB_DATE, today]; the day before the window is in neither.
C25_Witness ==
    /\ pc = "loop"
    /\ last_step = "split"
    /\ ~HasDates(popped[5])
    /\ popped[5].stars_min = popped[5].stars_max
    /\ \A e \in queue : HasDates(e[5])
    /\ TimesCovered(popped[5].stars_min, EARLIEST_GITHUB_DATE - 1) = 0
    /\ TimesCovered(popped[5].stars_min, EARLIEST_GITHUB_DATE) = 1

\* C26: over a run the stars_max of the partitions popped one after the other
\* never rises: a pop returns a partition whose stars_max is at most that of the
\* partition popped before it, and nothing queued has a stars_max above that of
\* the last partition popped, the children pushed by its split included.
C26_PoppedNonIncreasing ==
    /\ [](popped # <<>> => \A e \in queue : e[5].stars_max <= popped[5].stars_max)
    /\ [][pc = "loop" /\ pc' = "probe" /\ popped # <<>>
          => popped'[5].stars_max <= popped[5].stars_max]_vars

\* The third pop of a run: the root was split by score, its high child was
\* processed, and the low child, of a lower stars_max, is popped after it.
C26_Witness ==
    /\ pc = "probe"
    /\ last_step = "pop"
    /\ stats.partitions_processed = 3
    /\ stats.partitions_split = 1
    /\ popped[5].stars_max < stats.max_star_count
    /\ \E q \in settled : q.stars_max > popped[5].stars_max

\* C27: a finalized run record, succeeded, partial or failed, carries as
\* repo_count the number of entities whose batches the run committed.
C27_RepoCountIsCommitted ==
    run.status \in {"succeeded", "partial", "failed"} =>
        run.repo_count = Cardinality(committed)

\* C27, as the code behaves: the request for the second page of a partition
\* failed after the first page's entity was committed; the record of the failed
\* run carries repo_count 0.
C27_Witness ==
    /\ pc = "failed"
    /\ exc = "remote"
    /\ last_step = "except"
    /\ Cardinality(committed) = 1
    /\ run.status = "failed"
    /\ run.repo_count = 0

(***************************************************************************)
(* github_client.py: GitHubGraphQLClient                                   *)
(***************************************************************************)
NoWait == 0 - 1     \* None, where a wait in tenths of a second is expected

\* What _respect_min_request_interval sleeps at time `now`: the rest of the
\* interval since the last request, 0 when it is over.
PaceSleep_elapsed(now, last, interval) ==
    LET elapsed == now - last
    IN  IF interval - elapsed > 0 THEN elapsed ELSE 0

PaceSleep(now, last, interval) ==
    LET elapsed == now - last
        remaining_ == interval - elapsed
    IN  IF remaining_ > 0 THEN remaining_ ELSE 0

\* A mutation of _compute_backoff: the delay halves with every attempt.
_compute_backoff_halving(base, att, jitter) ==
    LET delay == base \div (2 ^ (att - 1))
    IN  Min(delay + jitter, MAX_SLEEP_SECONDS)

_compute_backoff(base, att, jitter) ==
    LET delay == base * (2 ^ (att - 1))
    IN  Min(delay + jitter, MAX_SLEEP_SECONDS)

\* _sleep: what is handed to time.sleep, 0 when nothing is.
SleepBound(seconds) == Max(0, Min(seconds, MAX_SLEEP_SECONDS))

\* _sleep was not called.
NoSleepCall == [called |-> FALSE, seconds |-> 0, slept |-> FALSE, duration |-> 0]

\* A mutation of _sleep: the seconds asked for are slept as they are.
_sleep_unbounded(seconds) ==
    [called |-> TRUE, seconds |-> seconds, slept |-> seconds > 0,
     duration |-> Max(0, seconds)]

\* _sleep(seconds, reason): time.sleep(bounded) is called if bounded > 0.
_sleep(seconds) ==
    [called |-> TRUE, seconds |-> seconds, slept |-> SleepBound(seconds) > 0,
     duration |-> SleepBound(seconds)]

(***************************************************************************)
(* github_client.py: what a request brings back                            *)
(***************************************************************************)
RETRYABLE_HTTP_CODES == {403, 429, 500, 502, 503, 504}

\* A header or JSON field that the client parses: absent (or empty), a text the
\* parser rejects, or a value it accepts.  The value of a Retry-After header is
\* its number, in tenths of a second; the value of an X-RateLimit-Reset header or
\* of resetAt is the time from the moment it is read to the reset it names.
Absent == <<"absent", 0>>
Unparsable == <<"text", 0>>
Value(v) == <<"value", v>>

NoHeaders == [retry_after |-> Absent, reset_epoch |-> Absent]
NoRateLimit == [present |-> FALSE, remaining |-> Absent, resetAt |-> Absent]

Response(transport, status_code, headers, body, errors, rate_limit) ==
    [transport |-> transport, status_code |-> status_code, headers |-> headers,
     body |-> body, errors |-> errors, rate_limit |-> rate_limit]

NoResponse == Response("none", 0, NoHeaders, "none", <<>>, NoRateLimit)

\* str.upper() on the error types of the model.
Upper(t) == IF t = "rate_limited" THEN "RATE_LIMITED" ELSE t

\* _errors_are_retryable: the loop returns True at the first error that matches.
\* An error's message is the set of the phrases searched for that it holds.
RECURSIVE _errors_are_retryable(_)
_errors_are_retryable(errors) ==
    IF errors = <<>>
    THEN FALSE
    ELSE LET error == Head(errors)
             error_type == Upper(error.type)
             message == error.message
         IN  IF "rate limit" \in message THEN TRUE
             ELSE IF "secondary rate limit" \in message THEN TRUE
             ELSE IF "timeout" \in message THEN TRUE
             ELSE IF "abuse" \in message THEN TRUE
             ELSE IF error_type \in {"RATE_LIMITED", "SERVICE_UNAVAILABLE",
                                     "ABUSE_DETECTED"} THEN TRUE
             ELSE _errors_are_retryable(Tail(errors))

\* _wait_from_rate_limit: None without a block, without resetAt, or when
\* fromisoformat rejects it.
_wait_from_rate_limit(rate_limit, jitter) ==
    IF ~rate_limit.present THEN NoWait
    ELSE IF rate_limit.resetAt = Absent THEN NoWait
    ELSE IF rate_limit.resetAt = Unparsable THEN NoWait
    ELSE Max(0, rate_limit.resetAt[2]) + jitter

\* _wait_from_headers: a Retry-After that float() rejects gives None at once.
_wait_from_headers(headers, jitter) ==
    IF headers.retry_after # Absent
    THEN IF headers.retry_after = Unparsable
         THEN NoWait
         ELSE Max(0, headers.retry_after[2]) + jitter
    ELSE IF headers.reset_epoch = Absent THEN NoWait
    ELSE IF headers.reset_epoch = Unparsable THEN NoWait
    ELSE Max(0, headers.reset_epoch[2]) + jitter

\* A mutation of _sleep_if_rate_low: a budget equal to the floor does not throttle.
_sleep_if_rate_low_strict(rate_limit, min_remaining_points, jitter) ==
    IF ~rate_limit.present THEN NoWait
    ELSE LET remaining_ == IF rate_limit.remaining = Absent
                           THEN 0 ELSE rate_limit.remaining[2]
         IN  IF remaining_ >= min_remaining_points
             THEN NoWait
             ELSE _wait_from_rate_limit(rate_limit, jitter)

\* _sleep_if_rate_low: the wait handed to _sleep, NoWait when _sleep is not called.
_sleep_if_rate_low(rate_limit, min_remaining_points, jitter) ==
    IF ~rate_limit.present THEN NoWait
    ELSE LET remaining_ == IF rate_limit.remaining = Absent
                           THEN 0 ELSE rate_limit.remaining[2]
         IN  IF remaining_ > min_remaining_points
             THEN NoWait
             ELSE _wait_from_rate_limit(rate_limit, jitter)

\* A mutation of Classify: every status of 500 and above is retried.
Classify_5xx_retried(r) ==
    IF r.transport # "ok" THEN "network_error"
    ELSE IF r.status_code \in RETRYABLE_HTTP_CODES \/ r.status_code >= 500
    THEN "http_retryable"
    ELSE IF r.status_code >= 400 THEN "http_fatal"
    ELSE IF r.body # "json" THEN "invalid_json"
    ELSE IF r.errors # <<>>
    THEN IF _errors_are_retryable(r.errors)
         THEN "graphql_retryable" ELSE "graphql_fatal"
    ELSE "ok"

\* The branch of execute's loop body a response takes.
Classify(r) ==
    IF r.transport # "ok" THEN "network_error"
    ELSE IF r.status_code \in RETRYABLE_HTTP_CODES THEN "http_retryable"
    ELSE IF r.status_code >= 400 THEN "http_fatal"
    ELSE IF r.body # "json" THEN "invalid_json"
    ELSE IF r.errors # <<>>
    THEN IF _errors_are_retryable(r.errors)
         THEN "graphql_retryable" ELSE "graphql_fatal"
    ELSE "ok"

RetryKinds == {"network_error", "http_retryable", "invalid_json", "graphql_retryable"}

\* The wait of a retried attempt and where it is taken from.
RetryWait(kind, r, backoff, jitter) ==
    LET from_rate_limit == _wait_from_rate_limit(r.rate_limit, jitter)
        from_headers == _wait_from_headers(r.headers, jitter)
    IN  IF kind = "graphql_retryable" /\ from_rate_limit # NoWait
        THEN [wait |-> from_rate_limit, from |-> "rate_limit"]
        ELSE IF kind \in {"graphql_retryable", "http_retryable"} /\ from_headers # NoWait
        THEN [wait |-> from_headers, from |-> "headers"]
        ELSE [wait |-> backoff, from |-> "backoff"]

BackoffJitters == {JitterMin, JitterMax}
WaitJitters == {JitterMin, WaitJitterMax}

RateLimited == [type |-> "", message |-> {"rate limit"}]
Unavailable == [type |-> "SERVICE_UNAVAILABLE", message |-> {}]
NotFound == [type |-> "NOT_FOUND", message |-> {}]
ErrorLists == { <<RateLimited>>, <<Unavailable>>, <<NotFound>>, <<NotFound, RateLimited>> }

HeaderSets ==
    { [retry_after |-> a, reset_epoch |-> e] :
        a \in {Absent, Unparsable, Value(35)}, e \in {Absent, Unparsable, Value(20)} }

SomeHeaderSets ==
    { NoHeaders,
      [retry_after |-> Value(35), reset_epoch |-> Value(20)],
      [retry_after |-> Absent, reset_epoch |-> Value(20)],
      [retry_after |-> Unparsable, reset_epoch |-> Value(20)] }

RateLimits ==
    {NoRateLimit} \cup
    [ present : {TRUE}, remaining : {Absent, Value(100), Value(101)},
      resetAt : {Absent, Unparsable, Value(10), Value(40000)} ]

SomeRateLimits ==
    { NoRateLimit,
      [present |-> TRUE, remaining |-> Value(101), resetAt |-> Unparsable],
      [present |-> TRUE, remaining |-> Value(101), resetAt |-> Value(10)] }

\* The responses on which the classification of execute is explored.
Responses ==
    {Response("RequestException", 0, NoHeaders, "none", <<>>, NoRateLimit)}
    \cup { Response("ok", s, h, "none", <<>>, NoRateLimit) :
             s \in {403, 502}, h \in HeaderSets }
    \cup { Response("ok", s, NoHeaders, "none", <<>>, NoRateLimit) :
             s \in {429, 500, 503, 504} }
    \cup { Response("ok", s, h, "Bad request", <<>>, NoRateLimit) :
             s \in {400, 401, 404, 422, 501},
             h \in {NoHeaders, [retry_after |-> Value(35), reset_epoch |-> Absent]} }
    \cup { Response("ok", s, NoHeaders, "not_json", <<>>, NoRateLimit) : s \in {200, 302} }
    \cup { Response("ok", 200, h, "json", e, rl) :
             h \in SomeHeaderSets, e \in ErrorLists, rl \in SomeRateLimits }
    \cup { Response("ok", 200, NoHeaders, "json", <<>>, rl) : rl \in RateLimits }

\* The responses on which the timing of execute is explored.
TimedResponses ==
    { Response("RequestException", 0, NoHeaders, "none", <<>>, NoRateLimit),
      Response("ok", 403, NoHeaders, "none", <<>>, NoRateLimit),
      Response("ok", 403, [retry_after |-> Value(30), reset_epoch |-> Absent],
               "none", <<>>, NoRateLimit),
      Response("ok", 403, [retry_after |-> Absent, reset_epoch |-> Value(40000)],
               "none", <<>>, NoRateLimit),
      Response("ok", 404, NoHeaders, "Not Found", <<>>, NoRateLimit),
      Response("ok", 200, NoHeaders, "json", <<RateLimited>>,
               [present |-> TRUE, remaining |-> Value(0), resetAt |-> Value(40000)]) }
    \cup { Response("ok", 200, NoHeaders, "json", <<>>, rl) :
             rl \in {NoRateLimit} \cup
                    [ present : {TRUE}, remaining : {Value(100), Value(101)},
                      resetAt : {Value(10), Value(40000)} ] }

NoReset == [read |-> NoWait, at |-> NoWait]

\* Where a request that starts at `started` lies to a reset known then: at or
\* after the reset, or before it but MAX_SLEEP_SECONDS after the response that
\* named it was read, or earlier than both.
StartedAfter(started, due) ==
    IF due = NoReset THEN "none"
    ELSE IF started >= due.at THEN "reset"
    ELSE IF started >= due.read + MAX_SLEEP_SECONDS THEN "cap"
    ELSE "early"

NoError == [kind |-> "none", status_code |-> 0, text |-> "", errors |-> <<>>, wraps |-> ""]

ClientConfigs ==
    [ max_retries : 2..3, base_backoff_seconds : {0 - 10, 0, 6, 20000},
      min_request_interval_seconds : {0, 4}, min_remaining_points : {100} ]

CInit ==
    /\ csettings \in ClientConfigs
    /\ cpc = "idle"
    /\ attempt = 0
    /\ clock \in {0, 100}
    /\ last_request_at = 0
    /\ last_error = "None"
    /\ outcome = "none"
    /\ requested = 0
    /\ request_gap = 0
    /\ backoffs = <<>>
    /\ last_sleep = 0
    /\ resp = NoResponse
    /\ call_requests = 0
    /\ wait_from = "none"
    /\ raised = NoError
    /\ reset_due = NoReset
    /\ started_after = "none"
    /\ sleep_call = NoSleepCall
    /\ PInert
    /\ KInert

\* The last two elements of a sequence with x appended.
LastTwo(seq, x) == IF Len(seq) = 0 THEN <<x>> ELSE <<seq[Len(seq)], x>>

\* def execute(...): last_error = None; for attempt in range(1, max_retries + 1)
Execute ==
    /\ cpc = "idle"
    /\ attempt' = 1
    /\ last_error' = "None"
    /\ backoffs' = <<>>
    /\ outcome' = "running"
    /\ cpc' = "attempt"
    /\ call_requests' = 0
    /\ raised' = NoError
    /\ resp' = NoResponse
    /\ wait_from' = "none"
    /\ UNCHANGED <<csettings, clock, last_request_at, requested, request_gap,
                   last_sleep, reset_due, started_after, sleep_call, pvars, kvars>>

\* A mutation of MoreAttempts: the loop runs one attempt more.
MoreAttempts_one_more(att, max_retries) == att < max_retries + 1

\* for attempt in range(1, max_retries + 1): whether an attempt follows att.
MoreAttempts(att, max_retries) == att < max_retries

\* raise RuntimeError(f"GraphQL request failed after retries: {last_error}")
ErrorAfterRetries(last) ==
    [NoError EXCEPT !.kind = "after_retries", !.wraps = last]

\* The rest of an iteration of execute's loop, once the response r of the request
\* started at `started` is there at `answered`; wj and bj are the jitters drawn
\* by the wait functions and by _compute_backoff if they are called.
AfterResponse(started, answered, r, wj, bj) ==
    LET kind == Classify(r)
        retry == kind \in RetryKinds
        backoff == _compute_backoff(csettings.base_backoff_seconds, attempt, bj)
        chosen == RetryWait(kind, r, backoff, wj)
        throttle == _sleep_if_rate_low(r.rate_limit, csettings.min_remaining_points, wj)
        wait == IF retry THEN chosen.wait
                ELSE IF kind = "ok" /\ throttle # NoWait THEN throttle
                ELSE 0
        call == IF retry \/ (kind = "ok" /\ throttle # NoWait)
                THEN _sleep(wait)
                ELSE NoSleepCall
        slept == call.duration
        new_last_error == IF kind = "network_error" THEN "RequestException"
                          ELSE IF kind = "invalid_json" THEN "ValueError"
                          ELSE last_error
    IN  \* self._last_request_at = time.monotonic(): the time axis restarts here
        /\ last_request_at' = started - started
        /\ requested' = Min(requested + 1, 2)
        /\ request_gap' = IF requested = 0 THEN 0 ELSE started - last_request_at
        /\ started_after' = StartedAfter(started, reset_due)
        /\ call_requests' = call_requests + 1
        /\ resp' = r
        /\ last_sleep' = slept
        /\ sleep_call' = call
        /\ clock' = (answered - started) + slept
        /\ wait_from' = IF retry THEN chosen.from
                        ELSE IF kind = "ok" /\ throttle # NoWait THEN "throttle"
                        ELSE "none"
        /\ reset_due' = IF kind = "ok" /\ throttle # NoWait
                        THEN [read |-> answered - started,
                              at |-> (answered - started) + r.rate_limit.resetAt[2]]
                        ELSE NoReset
        /\ backoffs' = IF retry /\ chosen.from = "backoff"
                       THEN LastTwo(backoffs, <<attempt, backoff>>)
                       ELSE backoffs
        /\ last_error' = new_last_error
        /\ IF retry
           THEN IF MoreAttempts(attempt, csettings.max_retries)
                THEN /\ attempt' = attempt + 1
                     /\ UNCHANGED <<cpc, outcome, raised>>
                ELSE /\ cpc' = "idle"
                     /\ outcome' = "failed_after_retries"
                     /\ raised' = ErrorAfterRetries(new_last_error)
                     /\ UNCHANGED attempt
           ELSE /\ cpc' = "idle"
                /\ outcome' = kind
                /\ raised' = IF kind = "http_fatal"
                            THEN [NoError EXCEPT !.kind = "http",
                                                 !.status_code = r.status_code,
                                                 !.text = r.body]
                            ELSE IF kind = "graphql_fatal"
                            THEN [NoError EXCEPT !.kind = "errors", !.errors = r.errors]
                            ELSE NoError
                /\ UNCHANGED attempt

\* One iteration of execute's loop: pacing, the request, and what its response
\* leads to: a sleep and the next attempt, the return of the data, or an error.
\* time.sleep may return late (by up to late); the request takes up to late too.
AttemptOn(responses, late) ==
    /\ cpc = "attempt"
    /\ \E over \in 0..late, latency \in 0..late :
         LET pace == PaceSleep(clock, last_request_at,
                               csettings.min_request_interval_seconds)
             started == clock + pace + (IF pace > 0 THEN over ELSE 0)
             answered == started + latency
         IN  \E r \in responses :
               \* a jitter is drawn only by the function that is called
               LET from == RetryWait(Classify(r), r, 0, 0).from
               IN  \E wj \in IF from = "backoff" THEN {JitterMin} ELSE WaitJitters,
                      bj \in IF from = "backoff" THEN BackoffJitters ELSE {JitterMin} :
                     AfterResponse(started, answered, r, wj, bj)
    /\ UNCHANGED <<csettings, pvars, kvars>>

Attempt == AttemptOn(TimedResponses, MaxLatency)

ClientNext == Execute \/ Attempt

ClientSpec == CInit /\ [][ClientNext]_vars

\* The same client, with requests and sleeps that take no more than asked and
\* every response of Responses: the classification of execute.
ReplyConfigs ==
    [ max_retries : 1..MaxRetries, base_backoff_seconds : {15},
      min_request_interval_seconds : {0}, min_remaining_points : {100} ]

ReplyInit ==
    /\ csettings \in ReplyConfigs
    /\ cpc = "idle"
    /\ attempt = 0
    /\ clock = 0
    /\ last_request_at = 0
    /\ last_error = "None"
    /\ outcome = "none"
    /\ requested = 0
    /\ request_gap = 0
    /\ backoffs = <<>>
    /\ last_sleep = 0
    /\ resp = NoResponse
    /\ call_requests = 0
    /\ wait_from = "none"
    /\ raised = NoError
    /\ reset_due = NoReset
    /\ started_after = "none"
    /\ sleep_call = NoSleepCall
    /\ PInert
    /\ KInert

AttemptReply == AttemptOn(Responses, 0)

ReplyNext == Execute \/ AttemptReply

ReplySpec == ReplyInit /\ [][ReplyNext]_vars

\* C8: the starts of any two consecutive HTTP requests of one client, retries
\* included, are at least min_request_interval_seconds apart.
C8_MinInterval ==
    requested = 2 =>
        request_gap >= csettings.min_request_interval_seconds

\* The first attempt failed at once and its backoff was shorter than the interval:
\* the second request started exactly one interval after the first.
C8_Witness ==
    /\ requested = 2
    /\ csettings.min_request_interval_seconds = 4
    /\ request_gap = 4
    /\ cpc = "attempt"
    /\ attempt = 3
    /\ Len(backoffs) = 1 /\ backoffs[1][2] = JitterMin

\* C9 as stated: whatever the base backoff and the jitter draws, a later attempt's
\* backoff is at least an earlier attempt's, and no backoff exceeds the cap plus
\* the largest jitter.
C9_BackoffMonotone ==
    /\ Len(backoffs) = 2 => backoffs[2][2] >= backoffs[1][2]
    /\ \A i \in 1..Len(backoffs) : backoffs[i][2] <= MAX_SLEEP_SECONDS + JitterMax

\* C9, amended: when the base backoff is at least the width of the jitter range
\* (0.6 s), a later attempt's backoff is at least an earlier attempt's; and for
\* every base backoff no backoff exceeds the cap plus the largest jitter.
C9_BackoffMonotoneAboveJitter ==
    /\ (csettings.base_backoff_seconds >= JitterMax - JitterMin /\ Len(backoffs) = 2)
          => backoffs[2][2] >= backoffs[1][2]
    /\ \A i \in 1..Len(backoffs) : backoffs[i][2] <= MAX_SLEEP_SECONDS + JitterMax

\* Two attempts at the smallest admitted base, the first with the largest jitter
\* and the second with the smallest.
C9_Witness ==
    /\ csettings.base_backoff_seconds = JitterMax - JitterMin
    /\ backoffs = << <<1, 6 + JitterMax>>, <<2, 12 + JitterMin>> >>

\* The kind of failure an exception held in last_error stands for.
KindOfError(e) ==
    IF e = "RequestException" THEN "network_error"
    ELSE IF e = "ValueError" THEN "invalid_json"
    ELSE "none"

\* C13: when every attempt of an execute call ended in a retryable outcome, the
\* error raised wraps the failure of the last attempt, whatever kind of failure
\* (network failure, retryable status, malformed body, retryable errors) it was.
C13_ErrorWrapsLastFailure ==
    outcome = "failed_after_retries" =>
        /\ raised.kind = "after_retries"
        /\ KindOfError(raised.wraps) = Classify(resp)

\* C13, as the code behaves: the first attempt failed in the network, the second
\* and last one got a 403, and the error raised wraps the network failure.
C13_Witness ==
    /\ outcome = "failed_after_retries"
    /\ csettings.max_retries = 2
    /\ call_requests = 2
    /\ resp.status_code = 403
    /\ raised.kind = "after_retries"
    /\ raised.wraps = "RequestException"

\* C14: a response with a status of 400 or above outside the retryable set ends
\* the execute call at once with an error that carries the status and the body:
\* nothing is slept and the call issues no further request, at any attempt.
C14_FatalStatusAborts ==
    [][/\ cpc = "attempt"
       /\ resp'.transport = "ok"
       /\ resp'.status_code >= 400
       /\ resp'.status_code \notin {403, 429, 500, 502, 503, 504}
       => /\ cpc' = "idle"
          /\ outcome' = "http_fatal"
          /\ raised' = [NoError EXCEPT !.kind = "http",
                                       !.status_code = resp'.status_code,
                                       !.text = resp'.body]
          /\ last_sleep' = 0
          /\ call_requests' = call_requests + 1
          /\ attempt' = attempt]_vars

\* A 501 on the second attempt, after a retried failure, ended the call.
C14_Witness ==
    /\ cpc = "idle"
    /\ outcome = "http_fatal"
    /\ attempt = 2
    /\ call_requests = 2
    /\ resp.status_code = 501
    /\ raised.status_code = 501
    /\ last_sleep = 0

\* An application error of one of the retryable classes, by message or type.
RetryableError(e) == _errors_are_retryable(<<e>>)

\* C15: a decoded response with application errors is retried only when its
\* errors are of the retryable classes; an error list that holds anything else
\* ends the call at once with the error list and without a further request;
\* in neither case is the response's data returned.
C15_ErrorListClassified ==
    [][/\ cpc = "attempt"
       /\ Classify(resp') \in {"graphql_retryable", "graphql_fatal", "ok"}
       /\ resp'.errors # <<>>
       => /\ outcome' # "ok"
          /\ IF \A i \in 1..Len(resp'.errors) : RetryableError(resp'.errors[i])
             THEN outcome' \in {"running", "failed_after_retries"}
             ELSE /\ cpc' = "idle"
                  /\ outcome' = "graphql_fatal"
                  /\ raised'.kind = "errors"
                  /\ raised'.errors = resp'.errors
                  /\ last_sleep' = 0]_vars

\* C15, as the code behaves: a list of a NOT_FOUND error and a rate-limit error
\* was slept on and the call went on to its second attempt.
C15_Witness ==
    /\ cpc = "attempt"
    /\ attempt = 2
    /\ call_requests = 1
    /\ resp.errors = <<NotFound, RateLimited>>
    /\ outcome = "running"
    /\ last_sleep > 0

\* C17: one execute call issues at most max_retries requests: each attempt
\* issues exactly one, a retryable outcome uses the attempt up, and after the
\* max_retries-th retryable outcome the call raises without another request.
C17_AtMostMaxRetriesRequests ==
    /\ [](/\ call_requests <= csettings.max_retries
          /\ (cpc = "attempt" => /\ call_requests = attempt - 1
                                 /\ attempt <= csettings.max_retries)
          /\ (outcome = "failed_after_retries"
                => call_requests = csettings.max_retries /\ cpc = "idle"))
    /\ [][cpc = "attempt" =>
            /\ call_requests' = call_requests + 1
            /\ (Classify(resp') \in RetryKinds =>
                  \/ attempt' = attempt + 1 /\ cpc' = "attempt"
                  \/ /\ attempt = csettings.max_retries
                     /\ outcome' = "failed_after_retries")]_vars

\* Three attempts of a call with max_retries = 3 were all retried.
C17_Witness ==
    /\ csettings.max_retries = 3
    /\ outcome = "failed_after_retries"
    /\ call_requests = 3
    /\ raised.kind = "after_retries"

\* The waits a usable value v of a header or of resetAt can give.
WaitsOn(v) == { SleepBound(Max(0, v[2]) + j) : j \in WaitJitters }

\* The waits the computed backoff of an attempt can give.
BackoffsOn(att) ==
    { SleepBound(_compute_backoff(csettings.base_backoff_seconds, att, j)) :
        j \in BackoffJitters }

Usable(v) == v[1] = "value"

\* The waits C18 admits for a retried response r of an attempt.
AdmittedWaits(r, att) ==
    IF Classify(r) = "graphql_retryable" /\ r.rate_limit.present
       /\ Usable(r.rate_limit.resetAt)
    THEN WaitsOn(r.rate_limit.resetAt)
    ELSE IF Usable(r.headers.retry_after) THEN WaitsOn(r.headers.retry_after)
    ELSE IF Usable(r.headers.reset_epoch) THEN WaitsOn(r.headers.reset_epoch)
    ELSE BackoffsOn(att)

\* C18: the wait before the retry of retryable application errors is taken from
\* the rate-limit block's reset time if one can be derived, otherwise from the
\* headers (Retry-After, else the reset-epoch header), otherwise from the
\* computed backoff; for a retryable status it is taken from the headers when
\* such a header is there, else from the computed backoff.
C18_WaitPrecedence ==
    [][/\ cpc = "attempt"
       /\ Classify(resp') \in {"graphql_retryable", "http_retryable"}
       => last_sleep' \in AdmittedWaits(resp', attempt)]_vars

\* C18, as the code behaves: a 403 with a Retry-After that is not a number and a
\* usable reset-epoch header was waited on with the computed backoff.
C18_Witness ==
    /\ resp.status_code = 403
    /\ resp.headers = [retry_after |-> Unparsable, reset_epoch |-> Value(20)]
    /\ wait_from = "backoff"
    /\ last_sleep \notin WaitsOn(Value(20))
    /\ last_sleep \in BackoffsOn(call_requests)

\* The last response was a success whose rate-limit block names a reset time and
\* reports a budget at or below the floor.
LowBudget ==
    /\ Classify(resp) = "ok"
    /\ resp.rate_limit.present
    /\ Usable(resp.rate_limit.remaining)
    /\ resp.rate_limit.remaining[2] <= csettings.min_remaining_points
    /\ Usable(resp.rate_limit.resetAt)

HighBudget ==
    /\ Classify(resp) = "ok"
    /\ resp.rate_limit.present
    /\ Usable(resp.rate_limit.remaining)
    /\ resp.rate_limit.remaining[2] > csettings.min_remaining_points

\* C19 as stated: after a success with a low budget execute sleeps until the
\* reset time plus jitter, so that the next request of the client starts no
\* earlier than the reset; with a budget above the floor it does not sleep.
C19_ThrottleUntilReset ==
    /\ LowBudget => last_sleep >= Max(0, resp.rate_limit.resetAt[2]) + JitterMin
    /\ HighBudget => last_sleep = 0
    /\ started_after \in {"none", "reset"}

\* C19, amended: the sleep lasts until the reset plus jitter but no longer than
\* MAX_SLEEP_SECONDS, so that the next request starts no earlier than the reset
\* or MAX_SLEEP_SECONDS after the response, whichever is first.
C19_ThrottleUntilResetOrCap ==
    /\ LowBudget => last_sleep \in WaitsOn(resp.rate_limit.resetAt)
    /\ HighBudget => last_sleep = 0
    /\ started_after \in {"none", "reset", "cap"}

\* Two successes with a budget equal to the floor in a row: each was slept on until
\* its reset, one second after the response, plus jitter, and the request of the
\* second started after the reset the first had named.
C19_Witness ==
    /\ started_after = "reset"
    /\ LowBudget
    /\ resp.rate_limit.remaining = Value(100)
    /\ resp.rate_limit.resetAt = Value(10)
    /\ last_sleep = 10 + JitterMin

\* C28: whatever wait a retry, a header, a rate-limit block or the throttle asks
\* for, _sleep sleeps at most MAX_SLEEP_SECONDS; it sleeps the wait asked for when
\* that is positive and within the bound, and does not call time.sleep at all
\* when the wait is not positive.
C28_SleepBounded ==
    /\ last_sleep <= MAX_SLEEP_SECONDS
    /\ last_sleep = sleep_call.duration
    /\ sleep_call.called =>
         /\ sleep_call.seconds <= 0 => ~sleep_call.slept /\ sleep_call.duration = 0
         /\ sleep_call.seconds > 0 =>
              /\ sleep_call.slept
              /\ sleep_call.duration = Min(sleep_call.seconds, MAX_SLEEP_SECONDS)
    /\ ~sleep_call.called => ~sleep_call.slept /\ sleep_call.duration = 0

\* With a negative base backoff the first attempt's backoff was negative and not
\* slept; the second attempt's response then named a reset 4000 s ahead in its
\* header, and the sleep was cut to MAX_SLEEP_SECONDS.
C28_Witness ==
    /\ csettings.base_backoff_seconds < 0
    /\ Len(backoffs) = 1 /\ backoffs[1][1] = 1 /\ backoffs[1][2] < 0
    /\ attempt = 3
    /\ wait_from = "headers"
    /\ sleep_call.called /\ sleep_call.slept
    /\ sleep_call.seconds > MAX_SLEEP_SECONDS
    /\ last_sleep = MAX_SLEEP_SECONDS
=============================================================================
